---- MODULE Spec2Model ----
(***************************************************************************)
(* OrionAI (src/Python/orionai.py): the validation pipeline and its        *)
(* safe-mode breaker ("Buy More Cover").                                   *)
(*                                                                         *)
(* A decision text is a sequence of space-separated words.  The vocabulary *)
(* is chosen so that no word is a substring of another word, so Python's   *)
(* `phrase.lower() in decision.lower()` on the joined string coincides     *)
(* with contiguous containment of the lower-cased word sequence.  Scores   *)
(* are kept in tenths (0.9 is 9) so that they stay integers.  A report's   *)
(* ai_system, context and timestamp are copied from the call and read by   *)
(* no stage; they are left out of the report.                              *)
(*                                                                         *)
(* An operation runs as one step, from an idle state to a state that holds *)
(* what it returned (report, quick_ret) and the state it started from      *)
(* (pre); the step Idle is the caller dropping the returned value before   *)
(* the next call.  Spec is one caller using the instance; LoadTestSpec is   *)
(* the load test of src/Tools/grimes.py, whose worker threads share it.    *)
(***************************************************************************)
EXTENDS Integers, Sequences, FiniteSets, TLC

\* ------------------------------------------------------------ bounds
MaxLen == 2
MaxCalls == 3
NumThreads == 2

\* ------------------------------------------------- program constants
DefaultConsecutiveFailures == 3
DefaultSuspicionScore == 7
HallucinationScore == 10
BiasScore == 9
ToxicityScore == 8
PiiScore == 5
FulcrumScore == 10

\* ------------------------------------------------------- vocabulary
Email == "a@b.com"
SsnLike == "000-00-0000"
Words == {"you", "idiot", "fake", "MEN", "ignore", "dump", Email}

Texts == UNION {[1..n -> Words] : n \in 0..MaxLen}

\* str.lower() on one word
Lower(w) == IF w \in {"MEN", "Men"} THEN "men" ELSE w

LowerText(t) == [i \in DOMAIN t |-> Lower(t[i])]

\* Python's `phrase in text` for sequences of words
Contains(phrase, t) ==
    \E i \in 0..(Len(t) - Len(phrase)) :
        \A k \in 1..Len(phrase) : t[i + k] = phrase[k]

\* dict.get(key, default): a key is held as the set of its values, {} when absent
Get(s, default) == IF s = {} THEN default ELSE CHOOSE v \in s : TRUE

\* ValidationResult
APPROVED == "approved"
QUARANTINED == "quarantined"
REJECTED == "rejected"
SANITIZED == "sanitized"

\* the call raised re.error in place of returning a report
RAISED == "re.error"

\* --------------------------------------------------- configurations
\* sanitizationRules: replacement token per configured kind
PlainRules == [k \in {"emails", "ssn"} |-> IF k = "emails" THEN "[EMAIL]" ELSE "[SSN]"]
ChainRules == [k \in {"emails", "ssn"} |-> IF k = "emails" THEN SsnLike ELSE "[SSN]"]

\* a configured PII regex is held as the set of (lower-case) words it finds
EmailRegex == {Email}
AtSignRegex == {Email}

\* a configured pattern that is not a regular expression, such as "(": the
\* loader json.load does not compile the patterns, re.search does, at the call
BadRegex == {"("}

\* re.compile accepts the pattern
Compiles(pii_pattern) == "(" \notin pii_pattern

BaseConfig ==
    [intersect |-> [enabled |-> TRUE,
                    hallucinationPatterns |-> << <<"fake">> >>,
                    biasKeywords |-> << <<"Men">>, <<"you", "Men">> >>,
                    toxicityPatterns |-> << <<"you", "idiot">> >>,
                    piiPatterns |-> <<EmailRegex, AtSignRegex>>],
     fulcrum |-> [enabled |-> TRUE,
                  promptInjectionPatterns |-> << <<"ignore">> >>,
                  dataExfiltrationPatterns |-> << <<"dump">> >>],
     charles |-> [enabled |-> TRUE, sanitizationRules |-> PlainRules],
     stay_in_car |-> [enabled |-> TRUE,
                      suspicionScore |-> {},
                      autoQuarantineOnBias |-> FALSE,
                      autoQuarantineOnToxicity |-> FALSE,
                      autoQuarantineOnPII |-> FALSE],
     buy_more |-> [consecutiveFailures |-> {2}]]

EmptyLists ==
    [enabled |-> TRUE, hallucinationPatterns |-> <<>>, biasKeywords |-> <<>>,
     toxicityPatterns |-> <<>>, piiPatterns |-> <<>>]

Configs ==
    {BaseConfig,
     [BaseConfig EXCEPT !.intersect.enabled = FALSE],
     [BaseConfig EXCEPT !.intersect = EmptyLists],
     [BaseConfig EXCEPT !.fulcrum.enabled = FALSE],
     [BaseConfig EXCEPT !.charles.enabled = FALSE],
     [BaseConfig EXCEPT !.charles.sanitizationRules = ChainRules],
     [BaseConfig EXCEPT !.stay_in_car.enabled = FALSE],
     [BaseConfig EXCEPT !.stay_in_car.suspicionScore = {0}],
     [BaseConfig EXCEPT !.stay_in_car.suspicionScore = {PiiScore}],
     [BaseConfig EXCEPT !.stay_in_car.autoQuarantineOnBias = TRUE],
     [BaseConfig EXCEPT !.stay_in_car.autoQuarantineOnToxicity = TRUE],
     [BaseConfig EXCEPT !.stay_in_car.autoQuarantineOnPII = TRUE],
     [BaseConfig EXCEPT !.stay_in_car.autoQuarantineOnPII = TRUE,
                        !.charles.enabled = FALSE],
     [BaseConfig EXCEPT !.stay_in_car.autoQuarantineOnPII = TRUE,
                        !.stay_in_car.suspicionScore = {PiiScore}],
     [BaseConfig EXCEPT !.stay_in_car.enabled = FALSE,
                        !.stay_in_car.suspicionScore = {0}],
     [BaseConfig EXCEPT !.buy_more.consecutiveFailures = {1}],
     [BaseConfig EXCEPT !.buy_more.consecutiveFailures = {}]}

\* a rule set the loader accepts although one of its patterns does not compile
UncheckedConfigs ==
    {[BaseConfig EXCEPT !.intersect.piiPatterns = <<EmailRegex, BadRegex>>]}

\* -------------------------------------------------------------- state
VARIABLES
    config,               \* self.config (CaseyProtocol), fixed at construction
    safe_mode_active,     \* the breaker flag
    consecutive_failures,
    total_validations,
    approved_count,
    rejected_count,
    quarantined_count,
    quarantined_reports,  \* quarantine history: per report, the call that built it
    report,               \* the report built by the last monitor_ai_decision
    stages,               \* the stage functions the last monitor_ai_decision called
    last_op,              \* the operation that has just returned, "idle" between calls
    quick_ret,            \* what quick_validate or validate_ai_output has just returned
    pre,                  \* the orchestrator state when that operation started
    threads               \* per worker thread of a load test: its place in monitor_ai_decision

vars == <<config, safe_mode_active, consecutive_failures, total_validations,
          approved_count, rejected_count, quarantined_count, quarantined_reports,
          report, stages, last_op, quick_ret, pre, threads>>

\* the orchestrator's fields
Core ==
    [safe |-> safe_mode_active, failures |-> consecutive_failures,
     total |-> total_validations, approved |-> approved_count,
     rejected |-> rejected_count, quarantined |-> quarantined_count,
     history |-> quarantined_reports]

NoReport ==
    [result |-> "none", original_decision |-> <<>>,
     sanitized_decision |-> <<>>, triggered_rules |-> <<>>, suspicion_score |-> 0]

Rule(kind, phrase) == [kind |-> kind, phrase |-> phrase]

BreakerRule == Rule("Buy More Cover active - all AI disabled", <<>>)
SanitizedRule == Rule("Charles Carmichael: PII sanitized", <<>>)
PiiRule == Rule("Intersect: Potential PII detected", <<>>)

\* ------------------------------------------------------------- stages
Mutant_FirstMatchByLoad(list, lower_decision) ==
    LET hits == {i \in DOMAIN list : Contains(LowerText(list[i]), lower_decision)}
    IN  IF hits = {} THEN 0
        ELSE IF total_validations % 2 = 0
        THEN CHOOSE i \in hits : \A j \in hits : i <= j
        ELSE CHOOSE i \in hits : \A j \in hits : i >= j

Mutant_FirstMatchLast(list, lower_decision) ==
    LET hits == {i \in DOMAIN list : Contains(LowerText(list[i]), lower_decision)}
    IN IF hits = {} THEN 0 ELSE CHOOSE i \in hits : \A j \in hits : i >= j

\* index of the first phrase of `list` that `lower_decision` contains, 0 if none
FirstMatch(list, lower_decision) ==
    LET hits == {i \in DOMAIN list : Contains(LowerText(list[i]), lower_decision)}
    IN IF hits = {} THEN 0 ELSE CHOOSE i \in hits : \A j \in hits : i <= j

\* re.search(pii_pattern, decision, re.IGNORECASE)
Search(pii_pattern, decision) ==
    \E i \in DOMAIN decision : Lower(decision[i]) \in pii_pattern

Mutant_FirstPiiOnEmpty(list, decision) ==
    LET hits == {i \in DOMAIN list : Search(list[i], decision)}
    IN IF list = <<>> THEN 1
       ELSE IF hits = {} THEN 0 ELSE CHOOSE i \in hits : \A j \in hits : i <= j

FirstPii(list, decision) ==
    LET hits == {i \in DOMAIN list : Search(list[i], decision)}
    IN IF hits = {} THEN 0 ELSE CHOOSE i \in hits : \A j \in hits : i <= j

\* index of the first pattern of `list` that re.search cannot compile, 0 if none
FirstBad(list) ==
    LET bad == {i \in DOMAIN list : ~Compiles(list[i])}
    IN IF bad = {} THEN 0 ELSE CHOOSE i \in bad : \A j \in bad : i <= j

Flag(name) == config.stay_in_car[name]

Mutant_LowerDecision(decision) == decision

\* lower_decision = decision.lower()
LowerDecision(decision) == LowerText(decision)

Mutant_HitRejected(rep, result, kind, phrase, score) ==
    [rep EXCEPT !.result = REJECTED,
                !.triggered_rules = Append(@, Rule(kind, phrase)),
                !.suspicion_score = @ + score]

\* a first phrase match: result, rule and score of the report
Hit(rep, result, kind, phrase, score) ==
    [rep EXCEPT !.result = result,
                !.triggered_rules = Append(@, Rule(kind, phrase)),
                !.suspicion_score = @ + score]

Mutant_BiasHitThenPii(rep, bias) ==
    [rep EXCEPT !.result = REJECTED,
                !.triggered_rules =
                    @ \o <<Rule("Intersect: Bias detected", bias), PiiRule>>,
                !.suspicion_score = @ + BiasScore + PiiScore]

BiasHit(rep, bias) == Hit(rep, REJECTED, "Intersect: Bias detected", bias, BiasScore)

Mutant_ToxicityHitUnscored(rep, toxicity) ==
    [rep EXCEPT !.result = IF Flag("autoQuarantineOnToxicity")
                           THEN QUARANTINED ELSE REJECTED,
                !.triggered_rules =
                    Append(@, Rule("Intersect: Toxicity detected", toxicity))]

\* a toxicity match: Rejected, the rule and the score, then the auto-quarantine flag
ToxicityHit(rep, toxicity) ==
    Hit(rep, IF Flag("autoQuarantineOnToxicity") THEN QUARANTINED ELSE REJECTED,
        "Intersect: Toxicity detected", toxicity, ToxicityScore)

Mutant_PiiHitPerPattern(rep) ==
    LET list == config.intersect.piiPatterns
        n == Cardinality({i \in DOMAIN list : Search(list[i], rep.original_decision)})
    IN  [rep EXCEPT !.triggered_rules = @ \o [i \in 1..n |-> PiiRule],
                    !.suspicion_score = @ + n * PiiScore]

\* the first PII pattern that matches: one rule, one increment, then break
PiiHit(rep) ==
    [rep EXCEPT !.result = IF Flag("autoQuarantineOnPII") THEN QUARANTINED ELSE @,
                !.triggered_rules = Append(@, PiiRule),
                !.suspicion_score = @ + PiiScore]

Mutant_enter_buy_more_mode(active) == active

\* _enter_buy_more_mode: the flag after the call
enter_buy_more_mode(active) == TRUE

\* _run_intersect_scan: [cont, report, safe (the breaker flag after the scan), trace]
run_intersect_scan(decision, rep, active) ==
    LET cfg == config.intersect
        lower_decision == LowerDecision(decision)
        h == FirstMatch(cfg.hallucinationPatterns, lower_decision)
        b == FirstMatch(cfg.biasKeywords, lower_decision)
        t == FirstMatch(cfg.toxicityPatterns, lower_decision)
        p == FirstPii(cfg.piiPatterns, decision)
        e == FirstBad(cfg.piiPatterns)
    IN  IF ~cfg.enabled THEN
            [cont |-> TRUE, report |-> rep, safe |-> active, trace |-> <<>>]
        ELSE IF h # 0 THEN
            [cont |-> FALSE,
             report |-> Hit(rep, REJECTED, "Intersect: Hallucination detected",
                            cfg.hallucinationPatterns[h], HallucinationScore),
             safe |-> active,
             trace |-> <<"hallucination">>]
        ELSE IF b # 0 THEN
            [cont |-> FALSE,
             report |-> BiasHit(rep, cfg.biasKeywords[b]),
             safe |-> IF Flag("autoQuarantineOnBias")
                      THEN enter_buy_more_mode(active) ELSE active,
             trace |-> <<"hallucination", "bias">>]
        ELSE IF t # 0 THEN
            [cont |-> FALSE,
             report |-> ToxicityHit(rep, cfg.toxicityPatterns[t]),
             safe |-> active,
             trace |-> <<"hallucination", "bias", "toxicity">>]
        ELSE IF e # 0 /\ (p = 0 \/ e < p) THEN
            [cont |-> FALSE,
             report |-> [rep EXCEPT !.result = RAISED],
             safe |-> active,
             trace |-> <<"hallucination", "bias", "toxicity", "pii">>]
        ELSE IF p # 0 THEN
            [cont |-> TRUE,
             report |-> PiiHit(rep),
             safe |-> active,
             trace |-> <<"hallucination", "bias", "toxicity", "pii">>]
        ELSE
            [cont |-> TRUE, report |-> rep, safe |-> active,
             trace |-> <<"hallucination", "bias", "toxicity", "pii">>]

Mutant_run_fulcrum_filter(decision, rep) ==
    LET cfg == config.fulcrum
        lower_decision == LowerDecision(decision)
        i == FirstMatch(cfg.promptInjectionPatterns, lower_decision)
        x == FirstMatch(cfg.dataExfiltrationPatterns, lower_decision)
    IN  IF ~cfg.enabled THEN [cont |-> TRUE, report |-> rep]
        ELSE IF x # 0 THEN
            [cont |-> FALSE,
             report |-> Hit(rep, REJECTED, "Fulcrum: Data exfiltration attempt",
                            cfg.dataExfiltrationPatterns[x], FulcrumScore)]
        ELSE IF i # 0 THEN
            [cont |-> FALSE,
             report |-> Hit(rep, REJECTED, "Fulcrum: Prompt injection attempt",
                            cfg.promptInjectionPatterns[i], FulcrumScore)]
        ELSE [cont |-> TRUE, report |-> rep]

Mutant_FilterGoesOn(decision, rep) ==
    LET cfg == config.fulcrum
        lower_decision == LowerDecision(decision)
        i == FirstMatch(cfg.promptInjectionPatterns, lower_decision)
        x == FirstMatch(cfg.dataExfiltrationPatterns, lower_decision)
    IN  IF ~cfg.enabled THEN [cont |-> TRUE, report |-> rep]
        ELSE IF i # 0 THEN
            [cont |-> TRUE,
             report |-> Hit(rep, REJECTED, "Fulcrum: Prompt injection attempt",
                            cfg.promptInjectionPatterns[i], FulcrumScore)]
        ELSE IF x # 0 THEN
            [cont |-> TRUE,
             report |-> Hit(rep, REJECTED, "Fulcrum: Data exfiltration attempt",
                            cfg.dataExfiltrationPatterns[x], FulcrumScore)]
        ELSE [cont |-> TRUE, report |-> rep]

\* _run_fulcrum_filter: [cont, report]
run_fulcrum_filter(decision, rep) ==
    LET cfg == config.fulcrum
        lower_decision == LowerDecision(decision)
        i == FirstMatch(cfg.promptInjectionPatterns, lower_decision)
        x == FirstMatch(cfg.dataExfiltrationPatterns, lower_decision)
    IN  IF ~cfg.enabled THEN [cont |-> TRUE, report |-> rep]
        ELSE IF i # 0 THEN
            [cont |-> FALSE,
             report |-> Hit(rep, REJECTED, "Fulcrum: Prompt injection attempt",
                            cfg.promptInjectionPatterns[i], FulcrumScore)]
        ELSE IF x # 0 THEN
            [cont |-> FALSE,
             report |-> Hit(rep, REJECTED, "Fulcrum: Data exfiltration attempt",
                            cfg.dataExfiltrationPatterns[x], FulcrumScore)]
        ELSE [cont |-> TRUE, report |-> rep]

\* the sanitizer's regex of one kind finds this word
Matches(kind, w) ==
    \/ kind = "emails" /\ w = Email
    \/ kind = "ssn" /\ w = SsnLike

\* re.sub(pattern of kind, rules[kind], text), skipped when the kind is not configured
Sub(kind, rules, text) ==
    IF kind \in DOMAIN rules
    THEN [i \in DOMAIN text |-> IF Matches(kind, text[i]) THEN rules[kind] ELSE text[i]]
    ELSE text

Mutant_sanitize_each_on_original(text) ==
    LET rules == config.charles.sanitizationRules
    IN  IF ~config.charles.enabled THEN text
        ELSE [i \in DOMAIN text |->
                IF "emails" \in DOMAIN rules /\ Matches("emails", text[i])
                THEN rules["emails"]
                ELSE IF "ssn" \in DOMAIN rules /\ Matches("ssn", text[i])
                THEN rules["ssn"]
                ELSE text[i]]

\* _sanitize_with_charles_carmichael
sanitize_with_charles_carmichael(text) ==
    LET rules == config.charles.sanitizationRules
    IN  IF ~config.charles.enabled THEN text
        ELSE Sub("ipAddresses", rules,
             Sub("phoneNumbers", rules,
             Sub("creditCards", rules,
             Sub("ssn", rules,
             Sub("emails", rules, text)))))

\* ------------------------------------------------------- orchestrator
Mutant_BreakerOpenReport(decision) ==
    [result |-> APPROVED, original_decision |-> decision,
     sanitized_decision |-> decision, triggered_rules |-> <<>>,
     suspicion_score |-> 0]

\* the report of a call made while the breaker is open
BreakerOpenReport(decision) ==
    [result |-> REJECTED, original_decision |-> decision,
     sanitized_decision |-> <<>>, triggered_rules |-> <<BreakerRule>>,
     suspicion_score |-> 0]

Mutant_FreshReportSanitized(decision) ==
    [result |-> APPROVED, original_decision |-> decision,
     sanitized_decision |-> sanitize_with_charles_carmichael(decision),
     triggered_rules |-> <<>>, suspicion_score |-> 0]

Mutant_FreshReportEmpty(decision) ==
    [result |-> APPROVED, original_decision |-> decision,
     sanitized_decision |-> <<>>, triggered_rules |-> <<>>, suspicion_score |-> 0]

\* the report built after the breaker check
FreshReport(decision) ==
    [result |-> APPROVED, original_decision |-> decision,
     sanitized_decision |-> decision, triggered_rules |-> <<>>, suspicion_score |-> 0]

TripThreshold == Get(config.buy_more.consecutiveFailures, DefaultConsecutiveFailures)

QuarantineThreshold == Get(config.stay_in_car.suspicionScore, DefaultSuspicionScore)

Mutant_TripAfterScanUnlessToxic(failures, active) ==
    IF failures >= TripThreshold /\ ~Flag("autoQuarantineOnToxicity")
    THEN enter_buy_more_mode(active) ELSE active

Mutant_TripAfterScanOnBiasFlag(failures, active) ==
    IF failures >= TripThreshold \/ Flag("autoQuarantineOnBias")
    THEN enter_buy_more_mode(active) ELSE active

Mutant_TripAfterScan(failures, active) ==
    IF failures > TripThreshold THEN enter_buy_more_mode(active) ELSE active

\* the scanner-stop branch: the breaker flag after the threshold check
TripAfterScan(failures, active) ==
    IF failures >= TripThreshold THEN enter_buy_more_mode(active) ELSE active

\* the filter-stop branch: the breaker flag when the call returns
TripAfterFilter(failures, active) == active

Mutant_ApplySanitizer(decision, rep) ==
    [rep EXCEPT !.sanitized_decision = sanitize_with_charles_carmichael(decision),
                !.result = SANITIZED,
                !.triggered_rules = Append(@, SanitizedRule)]

Mutant_ApplySanitizerNoRule(decision, rep) ==
    LET sanitized == sanitize_with_charles_carmichael(decision)
    IN  IF config.charles.enabled /\ sanitized # decision
        THEN [rep EXCEPT !.sanitized_decision = sanitized, !.result = SANITIZED]
        ELSE rep

\* the sanitizer step of the orchestrator
ApplySanitizer(decision, rep) ==
    LET sanitized == sanitize_with_charles_carmichael(decision)
    IN  IF config.charles.enabled /\ sanitized # decision
        THEN [rep EXCEPT !.sanitized_decision = sanitized,
                         !.result = SANITIZED,
                         !.triggered_rules = Append(@, SanitizedRule)]
        ELSE rep

Mutant_quarantine_output(history, rep, call) ==
    LET entry == [call |-> call, result |-> rep.result,
                  suspicion_score |-> rep.suspicion_score]
    IN  <<entry>> \o history

\* _quarantine_output: the history holds the report object itself; an entry is
\* kept as the number of the call that built the report, with its result and score
quarantine_output(history, rep, call) ==
    Append(history, [call |-> call, result |-> rep.result,
                     suspicion_score |-> rep.suspicion_score])

Mutant_ShouldQuarantineNever(rep) == FALSE

Mutant_ShouldQuarantineStrict(rep) ==
    config.stay_in_car.enabled /\ rep.suspicion_score > QuarantineThreshold

\* the quarantine condition
ShouldQuarantine(rep) ==
    config.stay_in_car.enabled /\ rep.suspicion_score >= QuarantineThreshold

Mutant_CountCall(total) == total

Mutant_CountCallTwice(total) == total + 2

\* total_validations after the breaker check
CountCall(total) == total + 1

Mutant_ShortCircuit(active) == FALSE

\* the breaker flag after a call made while it is open
ShortCircuit(active) == active

Mutant_ResetOnSuccess(failures) == failures

\* the counter after an approved decision
ResetOnSuccess(failures) == 0

Mutant_OpenCall(self) == [self EXCEPT !.total = @ + 1, !.rejected = @ + 1]

\* the instance after a call made while the breaker is open
OpenCall(self) == [self EXCEPT !.safe = ShortCircuit(@)]

\* monitor_ai_decision on the instance `self`: its fields and the report when
\* the call returns
OutcomeOn(self, decision) ==
    LET counted == [self EXCEPT !.total = CountCall(@)]
        scan == run_intersect_scan(decision, FreshReport(decision), self.safe)
        filter == run_fulcrum_filter(decision, scan.report)
        cleaned == ApplySanitizer(decision, filter.report)
        held == [cleaned EXCEPT !.result = QUARANTINED]
    IN  IF self.safe THEN
            OpenCall(self) @@
            [report |-> BreakerOpenReport(decision), stages |-> <<>>]
        ELSE IF scan.report.result = RAISED THEN
            counted @@
            [report |-> [NoReport EXCEPT !.result = RAISED],
             stages |-> <<"scan">> \o scan.trace]
        ELSE IF ~scan.cont THEN
            [counted EXCEPT !.failures = @ + 1,
                            !.rejected = @ + 1,
                            !.safe = TripAfterScan(self.failures + 1, scan.safe)] @@
            [report |-> scan.report, stages |-> <<"scan">> \o scan.trace]
        ELSE IF ~filter.cont THEN
            [counted EXCEPT !.failures = @ + 1,
                            !.rejected = @ + 1,
                            !.safe = TripAfterFilter(self.failures + 1, scan.safe)] @@
            [report |-> filter.report, stages |-> <<"scan">> \o scan.trace \o <<"filter">>]
        ELSE IF ShouldQuarantine(cleaned) THEN
            [counted EXCEPT !.quarantined = @ + 1,
                            !.history = quarantine_output(@, held, counted.total)] @@
            [report |-> held,
             stages |-> <<"scan">> \o scan.trace \o <<"filter">>
                        \o (IF config.charles.enabled THEN <<"sanitize">> ELSE <<>>)
                        \o <<"quarantine">>]
        ELSE IF cleaned.result \in {APPROVED, SANITIZED} THEN
            [counted EXCEPT !.approved = @ + 1,
                            !.failures = ResetOnSuccess(@)] @@
            [report |-> cleaned,
             stages |-> <<"scan">> \o scan.trace \o <<"filter">>
                        \o (IF config.charles.enabled THEN <<"sanitize">> ELSE <<>>)]
        ELSE
            counted @@
            [report |-> cleaned,
             stages |-> <<"scan">> \o scan.trace \o <<"filter">>
                        \o (IF config.charles.enabled THEN <<"sanitize">> ELSE <<>>)]

\* monitor_ai_decision on this instance
Outcome(decision) == OutcomeOn(Core, decision)

Apply(o) ==
    /\ safe_mode_active' = o.safe
    /\ consecutive_failures' = o.failures
    /\ total_validations' = o.total
    /\ approved_count' = o.approved
    /\ rejected_count' = o.rejected
    /\ quarantined_count' = o.quarantined
    /\ quarantined_reports' = o.history
    /\ report' = o.report
    /\ stages' = o.stages

Mutant_IsSafeQuarantined(rep) == rep.result \in {APPROVED, SANITIZED, QUARANTINED}

\* report.result in [ValidationResult.APPROVED, ValidationResult.SANITIZED]
IsSafe(rep) == rep.result \in {APPROVED, SANITIZED}

monitor_ai_decision(decision) ==
    /\ last_op = "idle"
    /\ safe_mode_active \/ total_validations < MaxCalls
    /\ \E o \in {Outcome(decision)} : Apply(o)
    /\ last_op' = "monitor_ai_decision"
    /\ quick_ret' = "none"
    /\ pre' = Core
    /\ UNCHANGED <<config, threads>>

quick_validate(decision) ==
    /\ last_op = "idle"
    /\ safe_mode_active \/ total_validations < MaxCalls
    /\ \E o \in {Outcome(decision)} :
           /\ Apply(o)
           /\ quick_ret' = IF o.report.result = RAISED THEN RAISED
                          ELSE IF IsSafe(o.report) THEN "True" ELSE "False"
    /\ last_op' = "quick_validate"
    /\ pre' = Core
    /\ UNCHANGED <<config, threads>>

\* OrionAI.__init__: the fields of a new instance
NewInstance ==
    [safe |-> FALSE, failures |-> 0, total |-> 0, approved |-> 0,
     rejected |-> 0, quarantined |-> 0, history |-> <<>>]

\* the module-level validate_ai_output: one call on a new instance built from
\* the same configuration file.  It neither reads nor changes this instance,
\* so it is taken only before this instance has been used.
validate_ai_output(decision) ==
    /\ last_op = "idle"
    /\ Core = NewInstance
    /\ \E o \in {OutcomeOn(NewInstance, decision)} :
           /\ report' = o.report
           /\ stages' = o.stages
           /\ quick_ret' = IF o.report.result = RAISED THEN RAISED
                          ELSE IF IsSafe(o.report) THEN "True" ELSE "False"
    /\ last_op' = "validate_ai_output"
    /\ pre' = Core
    /\ UNCHANGED <<config, safe_mode_active, consecutive_failures, total_validations,
                   approved_count, rejected_count, quarantined_count,
                   quarantined_reports, threads>>

Mutant_ExitState(active, failures) == [safe |-> FALSE, failures |-> 0]

\* the state exit_buy_more_mode leaves: [safe, failures]
ExitState(active, failures) ==
    IF ~active THEN [safe |-> active, failures |-> failures]
    ELSE [safe |-> FALSE, failures |-> 0]

Mutant_ExitFields(self) == [NewInstance EXCEPT !.history = self.history]

\* the fields of the instance after exit_buy_more_mode
ExitFields(self) ==
    [self EXCEPT !.safe = ExitState(self.safe, self.failures).safe,
                 !.failures = ExitState(self.safe, self.failures).failures]

exit_buy_more_mode ==
    /\ last_op = "idle"
    /\ safe_mode_active' = ExitFields(Core).safe
    /\ consecutive_failures' = ExitFields(Core).failures
    /\ total_validations' = ExitFields(Core).total
    /\ approved_count' = ExitFields(Core).approved
    /\ rejected_count' = ExitFields(Core).rejected
    /\ quarantined_count' = ExitFields(Core).quarantined
    /\ quarantined_reports' = ExitFields(Core).history
    /\ last_op' = "exit_buy_more_mode"
    /\ quick_ret' = "none"
    /\ pre' = Core
    /\ UNCHANGED <<config, report, stages, threads>>

\* the caller is done with what the operation returned
Idle ==
    /\ last_op # "idle"
    /\ last_op' = "idle"
    /\ report' = NoReport
    /\ stages' = <<>>
    /\ quick_ret' = "none"
    /\ pre' = Core
    /\ UNCHANGED <<config, safe_mode_active, consecutive_failures, total_validations,
                   approved_count, rejected_count, quarantined_count,
                   quarantined_reports, threads>>

is_in_safe_mode == safe_mode_active

get_validation_metrics ==
    [total_validations |-> total_validations, approved |-> approved_count,
     rejected |-> rejected_count, quarantined |-> quarantined_count]

\* ------------------------------------------- concurrent load test
\* run_load_test hands monitor_ai_decision calls on one instance to the
\* threads of a ThreadPoolExecutor.  The instance holds no lock.  A statement
\* `self.x += 1` is a load of self.x, an addition and a store, and another
\* thread may run between the load and the store.  The stages work on the
\* call's own report; a thread's steps on the shared fields, in the order of
\* the code, are planned when it has passed the breaker check.
Threads == 1..NumThreads

\* a thread before its call; `result` is the result of the report the call
\* returns, `records` the activation records the call wrote to the safe-mode log
Ready ==
    [pc |-> "ready", todo |-> <<>>, tmp |-> 0, call |-> 0, passed |-> FALSE,
     result |-> "none", records |-> 0]

Op(op, field, result, score) ==
    [op |-> op, field |-> field, result |-> result, score |-> score]

Inc(field) == Op("inc", field, "none", 0)

\* the statements of monitor_ai_decision that touch shared fields, after the
\* breaker check, for this decision
Plan(decision) ==
    LET scan == run_intersect_scan(decision, FreshReport(decision), FALSE)
        filter == run_fulcrum_filter(decision, scan.report)
        cleaned == ApplySanitizer(decision, filter.report)
    IN  <<Inc("total")>> \o
        (IF scan.report.result = RAISED THEN <<>>
         ELSE IF ~scan.cont THEN
            (IF scan.safe THEN <<Op("enter", "safe", "none", 0)>> ELSE <<>>)
            \o <<Inc("failures"), Inc("rejected"), Op("threshold", "safe", "none", 0)>>
         ELSE IF ~filter.cont THEN
            <<Inc("failures"), Inc("rejected")>>
         ELSE IF ShouldQuarantine(cleaned) THEN
            <<Op("append", "history", QUARANTINED, cleaned.suspicion_score),
              Inc("quarantined")>>
         ELSE IF cleaned.result \in {APPROVED, SANITIZED} THEN
            <<Inc("approved"), Op("reset", "failures", "none", 0)>>
         ELSE <<>>)

\* the result of the report that a call past the breaker check returns
ResultOf(decision) ==
    OutcomeOn(NewInstance, decision).report.result

\* `if self.safe_mode_active: return ...`, else the call goes on
check_safe_mode(t, decision) ==
    /\ threads[t].pc = "ready"
    /\ threads' = [threads EXCEPT ![t] =
           IF safe_mode_active
           THEN [@ EXCEPT !.pc = "done",
                          !.result = BreakerOpenReport(decision).result]
           ELSE [@ EXCEPT !.pc = "run", !.todo = Plan(decision), !.passed = TRUE,
                          !.result = ResultOf(decision)]]
    /\ UNCHANGED <<config, safe_mode_active, consecutive_failures, total_validations,
                   approved_count, rejected_count, quarantined_count,
                   quarantined_reports, report, stages, last_op, quick_ret, pre>>

Next1(t) == threads[t].todo[1]

Doing(t, op) ==
    /\ threads[t].pc = "run"
    /\ threads[t].todo # <<>>
    /\ Next1(t).op = op

Done1(t) == [threads EXCEPT ![t].todo = Tail(@)]

\* self.<field> += 1, first half: read the field
load(t) ==
    /\ Doing(t, "inc")
    /\ threads' = [threads EXCEPT ![t].pc = "loaded", ![t].tmp = Core[Next1(t).field]]
    /\ UNCHANGED <<config, safe_mode_active, consecutive_failures, total_validations,
                   approved_count, rejected_count, quarantined_count,
                   quarantined_reports, report, stages, last_op, quick_ret, pre>>

Stored(t, field, old) == IF Next1(t).field = field THEN threads[t].tmp + 1 ELSE old

\* self.<field> += 1, second half: write what was read, plus one
store(t) ==
    /\ threads[t].pc = "loaded"
    /\ total_validations' = Stored(t, "total", total_validations)
    /\ consecutive_failures' = Stored(t, "failures", consecutive_failures)
    /\ rejected_count' = Stored(t, "rejected", rejected_count)
    /\ approved_count' = Stored(t, "approved", approved_count)
    /\ quarantined_count' = Stored(t, "quarantined", quarantined_count)
    /\ threads' = [threads EXCEPT ![t] =
           [@ EXCEPT !.pc = "run", !.todo = Tail(@),
                     !.call = IF Next1(t).field = "total" THEN threads[t].tmp + 1 ELSE @]]
    /\ UNCHANGED <<config, safe_mode_active, quarantined_reports,
                   report, stages, last_op, quick_ret, pre>>

\* _enter_buy_more_mode, `if self.safe_mode_active: return`: the thread goes
\* on to activate only when it read the flag as unset
Entering(t, called) ==
    IF called /\ ~safe_mode_active
    THEN [threads EXCEPT ![t].pc = "entering"]
    ELSE Done1(t)

\* the bias branch of the scanner calls _enter_buy_more_mode
enter_on_bias(t) ==
    /\ Doing(t, "enter")
    /\ threads' = Entering(t, TRUE)
    /\ UNCHANGED <<config, safe_mode_active, consecutive_failures, total_validations,
                   approved_count, rejected_count, quarantined_count,
                   quarantined_reports, report, stages, last_op, quick_ret, pre>>

\* `if self.consecutive_failures >= threshold: self._enter_buy_more_mode(...)`
check_threshold(t) ==
    /\ Doing(t, "threshold")
    /\ threads' = Entering(t, TripAfterScan(consecutive_failures, FALSE))
    /\ UNCHANGED <<config, safe_mode_active, consecutive_failures, total_validations,
                   approved_count, rejected_count, quarantined_count,
                   quarantined_reports, report, stages, last_op, quick_ret, pre>>

\* _enter_buy_more_mode past its test: set the flag, print the banner and
\* append the activation record to OrionAI_SafeMode.txt
activate(t) ==
    /\ threads[t].pc = "entering"
    /\ safe_mode_active' = enter_buy_more_mode(safe_mode_active)
    /\ threads' = [threads EXCEPT ![t] =
           [@ EXCEPT !.pc = "run", !.todo = Tail(@), !.records = @ + 1]]
    /\ UNCHANGED <<config, consecutive_failures, total_validations,
                   approved_count, rejected_count, quarantined_count,
                   quarantined_reports, report, stages, last_op, quick_ret, pre>>

\* self.consecutive_failures = 0
reset_failures(t) ==
    /\ Doing(t, "reset")
    /\ consecutive_failures' = ResetOnSuccess(consecutive_failures)
    /\ threads' = Done1(t)
    /\ UNCHANGED <<config, safe_mode_active, total_validations,
                   approved_count, rejected_count, quarantined_count,
                   quarantined_reports, report, stages, last_op, quick_ret, pre>>

\* self._quarantine_output(report): list.append is one step
append_quarantined(t) ==
    /\ Doing(t, "append")
    /\ quarantined_reports' =
           quarantine_output(quarantined_reports,
                             [result |-> Next1(t).result,
                              suspicion_score |-> Next1(t).score],
                             threads[t].call)
    /\ threads' = Done1(t)
    /\ UNCHANGED <<config, safe_mode_active, consecutive_failures, total_validations,
                   approved_count, rejected_count, quarantined_count,
                   report, stages, last_op, quick_ret, pre>>

\* return report
return_report(t) ==
    /\ threads[t].pc = "run"
    /\ threads[t].todo = <<>>
    /\ threads' = [threads EXCEPT ![t].pc = "done"]
    /\ UNCHANGED <<config, safe_mode_active, consecutive_failures, total_validations,
                   approved_count, rejected_count, quarantined_count,
                   quarantined_reports, report, stages, last_op, quick_ret, pre>>

Init ==
    /\ threads = [t \in Threads |-> Ready]
    /\ config \in Configs
    /\ safe_mode_active = FALSE
    /\ consecutive_failures = 0
    /\ total_validations = 0
    /\ approved_count = 0
    /\ rejected_count = 0
    /\ quarantined_count = 0
    /\ quarantined_reports = <<>>
    /\ report = NoReport
    /\ stages = <<>>
    /\ last_op = "idle"
    /\ quick_ret = "none"
    /\ pre = [safe |-> FALSE, failures |-> 0, total |-> 0, approved |-> 0,
              rejected |-> 0, quarantined |-> 0, history |-> <<>>]

\* a call is made between operations, with any text
Monitor == last_op = "idle" /\ \E decision \in Texts : monitor_ai_decision(decision)

Quick == last_op = "idle" /\ \E decision \in Texts : quick_validate(decision)

Validate == last_op = "idle" /\ \E decision \in Texts : validate_ai_output(decision)

Next == Monitor \/ Quick \/ Validate \/ exit_buy_more_mode \/ Idle

Spec == Init /\ [][Next]_vars

\* the same instance under any rule set the loader accepts
UncheckedInit ==
    /\ threads = [t \in Threads |-> Ready]
    /\ config \in Configs \cup UncheckedConfigs
    /\ safe_mode_active = NewInstance.safe
    /\ consecutive_failures = NewInstance.failures
    /\ total_validations = NewInstance.total
    /\ approved_count = NewInstance.approved
    /\ rejected_count = NewInstance.rejected
    /\ quarantined_count = NewInstance.quarantined
    /\ quarantined_reports = NewInstance.history
    /\ report = NoReport
    /\ stages = <<>>
    /\ last_op = "idle"
    /\ quick_ret = "none"
    /\ pre = NewInstance

UncheckedSpec == UncheckedInit /\ [][Next]_vars

\* the load test: every thread makes one call on the new instance
CheckSafeMode == \E t \in Threads : \E decision \in Texts : check_safe_mode(t, decision)

Load == \E t \in Threads : load(t)

Store == \E t \in Threads : store(t)

EnterOnBias == \E t \in Threads : enter_on_bias(t)

CheckThreshold == \E t \in Threads : check_threshold(t)

Activate == \E t \in Threads : activate(t)

ResetFailures == \E t \in Threads : reset_failures(t)

AppendQuarantined == \E t \in Threads : append_quarantined(t)

ReturnReport == \E t \in Threads : return_report(t)

LoadTestNext ==
    \/ CheckSafeMode \/ Load \/ Store \/ EnterOnBias \/ CheckThreshold \/ Activate
    \/ ResetFailures \/ AppendQuarantined \/ ReturnReport

LoadTestSpec == Init /\ [][LoadTestNext]_vars

\* ------------------------------------------------------------- claims
Calls == {"monitor_ai_decision", "quick_validate"}

Range(f) == {f[i] : i \in DOMAIN f}

\* the text contains a phrase of the list (case-insensitive, anywhere)
HasPhrase(list, decision) ==
    \E i \in DOMAIN list : Contains(LowerText(list[i]), LowerText(decision))

BiasRuleOf(rep) ==
    \E r \in Range(rep.triggered_rules) : r.kind = "Intersect: Bias detected"

\* C1: while the breaker is open, every call returns a Rejected report whose
\* rules are exactly the fixed breaker rule, and no stage runs.
C1_OpenRejectsAll ==
    (pre.safe /\ last_op \in Calls) =>
        /\ report.result = REJECTED
        /\ report.triggered_rules = <<BreakerRule>>
        /\ stages = <<>>

C1_Witness ==
    /\ safe_mode_active
    /\ last_op = "monitor_ai_decision"
    /\ report.original_decision = <<"you">>
    /\ report.triggered_rules = <<BreakerRule>>

\* C2: once the last N calls in a row have ended Rejected (the counter, which
\* every Rejected outcome raises by one and only an Approved or Sanitized
\* outcome or a reset clears, has reached the threshold N), is_in_safe_mode()
\* is true, whichever stage rejected.
C2_TripAfterNRejections ==
    (last_op \in Calls /\ report.result = REJECTED
        /\ consecutive_failures >= TripThreshold) => is_in_safe_mode

\* C3: once open the breaker stays open across monitor_ai_decision and
\* quick_validate calls; only exit_buy_more_mode closes it.
C3_OpenUntilExit ==
    pre.safe => (safe_mode_active \/ last_op = "exit_buy_more_mode")

C3_Witness ==
    /\ safe_mode_active
    /\ last_op = "quick_validate"
    /\ quick_ret = "False"
    /\ report.original_decision = <<"you">>
    /\ report.triggered_rules = <<BreakerRule>>

\* C4 (as claimed): after exit_buy_more_mode the breaker is closed and the
\* consecutive-failure counter is 0, whatever the state before the call.
C4_ExitAlwaysResets ==
    last_op = "exit_buy_more_mode" =>
        (~safe_mode_active /\ consecutive_failures = 0)

\* C4 (amended): after exit_buy_more_mode the breaker is closed; the counter
\* is 0 if the breaker was open before the call and unchanged if it was closed.
C4_ExitResetsWhenOpen ==
    last_op = "exit_buy_more_mode" =>
        /\ ~safe_mode_active
        /\ consecutive_failures = IF pre.safe THEN 0 ELSE pre.failures

C4_Witness ==
    /\ last_op = "exit_buy_more_mode"
    /\ ~safe_mode_active
    /\ consecutive_failures > 0

\* C5: a call that returns Approved or Sanitized leaves the counter at 0; a call
\* raises the counter by at most one, and the breaker opens in a call, other
\* than by the bias auto-trip, only with the counter at or above the threshold:
\* so fewer than N rejections after an approval never trip it.
C5_ApprovalResetsCounter ==
    last_op \in Calls =>
        /\ report.result \in {APPROVED, SANITIZED} => consecutive_failures = 0
        /\ consecutive_failures <= pre.failures + 1
        /\ (~pre.safe /\ safe_mode_active
              /\ ~(Flag("autoQuarantineOnBias") /\ BiasRuleOf(report)))
           => consecutive_failures >= TripThreshold

\* rejected, approved, rejected with N = 2: the breaker is still closed
C5_Witness ==
    /\ TripThreshold = 2
    /\ rejected_count = 2
    /\ approved_count = 1
    /\ quarantined_count = 0
    /\ consecutive_failures = 1
    /\ ~safe_mode_active

\* the first phrase of the list that the text contains, in list order
IsFirstHit(list, i, decision) ==
    /\ Contains(LowerText(list[i]), LowerText(decision))
    /\ \A j \in 1..(i - 1) : ~Contains(LowerText(list[j]), LowerText(decision))

BiasReport(rep, bias) ==
    /\ rep.result = REJECTED
    /\ Rule("Intersect: Bias detected", bias) \in Range(rep.triggered_rules)
    /\ rep.suspicion_score = BiasScore

\* C6 (as claimed): with the breaker closed and the scanner enabled, a text
\* containing a configured bias phrase is Rejected with a rule naming that
\* phrase and a score raised by exactly 0.9.
C6_BiasAlwaysNamed ==
    (~pre.safe /\ last_op \in Calls /\ config.intersect.enabled) =>
        \A i \in DOMAIN config.intersect.biasKeywords :
            Contains(LowerText(config.intersect.biasKeywords[i]),
                     LowerText(report.original_decision))
            => BiasReport(report, config.intersect.biasKeywords[i])

\* C6 (amended): the same for a text that contains no configured hallucination
\* pattern, the rule naming the first bias phrase, in list order, that the text
\* contains.
C6_FirstBiasNamed ==
    (~pre.safe /\ last_op \in Calls /\ config.intersect.enabled
        /\ ~HasPhrase(config.intersect.hallucinationPatterns,
                      report.original_decision)) =>
        \A i \in DOMAIN config.intersect.biasKeywords :
            IsFirstHit(config.intersect.biasKeywords, i, report.original_decision)
            => BiasReport(report, config.intersect.biasKeywords[i])

\* an upper-case bias word after a clean word
C6_Witness ==
    /\ last_op \in Calls
    /\ report.original_decision = <<"idiot", "MEN">>
    /\ BiasReport(report, <<"Men">>)

\* no configured phrase or regex matches the text
NoMatch(decision) ==
    /\ ~HasPhrase(config.intersect.hallucinationPatterns, decision)
    /\ ~HasPhrase(config.intersect.biasKeywords, decision)
    /\ ~HasPhrase(config.intersect.toxicityPatterns, decision)
    /\ ~HasPhrase(config.fulcrum.promptInjectionPatterns, decision)
    /\ ~HasPhrase(config.fulcrum.dataExfiltrationPatterns, decision)
    /\ \A i \in DOMAIN config.intersect.piiPatterns :
           ~Search(config.intersect.piiPatterns[i], decision)

Unchanged(decision) == sanitize_with_charles_carmichael(decision) = decision

\* C7 (as claimed): a text that matches nothing and that sanitization leaves
\* unchanged is Approved with sanitized_decision = original_decision, for every
\* accepted rule set and in every reachable state.
C7_CleanAlwaysApproved ==
    (last_op \in Calls /\ NoMatch(report.original_decision)
        /\ Unchanged(report.original_decision)) =>
        /\ report.result = APPROVED
        /\ report.sanitized_decision = report.original_decision

\* C7 (amended): the same for a call made with the breaker closed, under a rule
\* set whose quarantine stage is disabled or has a threshold above 0.
C7_CleanApprovedWhenClosed ==
    (~pre.safe /\ last_op \in Calls
        /\ (~config.stay_in_car.enabled \/ QuarantineThreshold > 0)
        /\ NoMatch(report.original_decision)
        /\ Unchanged(report.original_decision)) =>
        /\ report.result = APPROVED
        /\ report.sanitized_decision = report.original_decision

\* the words of the toxic phrase in the other order
C7_Witness ==
    /\ last_op \in Calls
    /\ report.original_decision = <<"idiot", "you">>
    /\ report.result = APPROVED
    /\ config.charles.enabled /\ config.intersect.enabled /\ config.fulcrum.enabled

\* the text passes both reject stages
Passes(decision) ==
    /\ config.intersect.enabled =>
          /\ ~HasPhrase(config.intersect.hallucinationPatterns, decision)
          /\ ~HasPhrase(config.intersect.biasKeywords, decision)
          /\ ~HasPhrase(config.intersect.toxicityPatterns, decision)
    /\ config.fulcrum.enabled =>
          /\ ~HasPhrase(config.fulcrum.promptInjectionPatterns, decision)
          /\ ~HasPhrase(config.fulcrum.dataExfiltrationPatterns, decision)

Replacements ==
    {config.charles.sanitizationRules[k] : k \in DOMAIN config.charles.sanitizationRules}

Sensitive(w) == \E k \in DOMAIN config.charles.sanitizationRules : Matches(k, w)

\* the rewritten text is in the report, with the rule
Rewritten(rep) ==
    /\ rep.sanitized_decision = sanitize_with_charles_carmichael(rep.original_decision)
    /\ Range(rep.sanitized_decision) \cap Replacements # {}
    /\ \A w \in Range(rep.original_decision) :
           Sensitive(w) => w \notin Range(rep.sanitized_decision)
    /\ SanitizedRule \in Range(rep.triggered_rules)

\* the sanitizer stage left the report alone
Untouched(rep) ==
    /\ rep.sanitized_decision = rep.original_decision
    /\ SanitizedRule \notin Range(rep.triggered_rules)
    /\ rep.result # SANITIZED

\* C8 (as claimed): a text that passes both reject stages and that the enabled
\* sanitizer changes is returned rewritten, with the sanitizer's rule and result
\* Sanitized; a text the sanitizer leaves unchanged is left untouched.
C8_RewrittenIsSanitized ==
    (~pre.safe /\ last_op \in Calls /\ Passes(report.original_decision)) =>
        IF config.charles.enabled /\ ~Unchanged(report.original_decision)
        THEN Rewritten(report) /\ report.result = SANITIZED
        ELSE Untouched(report)

\* C8 (amended): the result is Sanitized unless the quarantine stage is enabled
\* and the score has reached its threshold, and then it is Quarantined.
C8_RewrittenUnlessQuarantined ==
    (~pre.safe /\ last_op \in Calls /\ Passes(report.original_decision)) =>
        IF config.charles.enabled /\ ~Unchanged(report.original_decision)
        THEN /\ Rewritten(report)
             /\ report.result =
                   IF config.stay_in_car.enabled
                      /\ report.suspicion_score >= QuarantineThreshold
                   THEN QUARANTINED ELSE SANITIZED
        ELSE Untouched(report)

C8_Witness ==
    /\ last_op \in Calls
    /\ report.original_decision = <<"you", Email>>
    /\ report.sanitized_decision = <<"you", "[EMAIL]">>
    /\ report.result = SANITIZED
    /\ SanitizedRule \in Range(report.triggered_rules)

\* C9: between calls, approved + rejected + quarantined = total_validations.
C9_CountersAddUp ==
    get_validation_metrics.approved + get_validation_metrics.rejected
        + get_validation_metrics.quarantined
    = get_validation_metrics.total_validations

\* C10: a call that starts with the breaker closed raises total_validations by
\* exactly one whatever its outcome, and nothing else changes it, so it counts
\* the calls made with the breaker closed.
C10_TotalCountsClosedCalls ==
    total_validations =
        pre.total + (IF ~pre.safe /\ last_op \in Calls THEN 1 ELSE 0)

\* three calls, one approved, one rejected, one quarantined
C10_Witness ==
    /\ get_validation_metrics.total_validations = 3
    /\ approved_count = 1
    /\ rejected_count = 1
    /\ quarantined_count = 1

\* the operations that return a report of monitor_ai_decision to their caller
Reported == last_op \in Calls \cup {"validate_ai_output"}

\* C11: a call made while the breaker is open leaves the counters, the
\* consecutive-failure counter, the breaker flag and the quarantine history as
\* they were before the call.
C11_OpenCallChangesNothing ==
    (pre.safe /\ last_op \in Calls) =>
        /\ total_validations = pre.total
        /\ approved_count = pre.approved
        /\ rejected_count = pre.rejected
        /\ quarantined_count = pre.quarantined
        /\ consecutive_failures = pre.failures
        /\ safe_mode_active = pre.safe
        /\ quarantined_reports = pre.history

\* a blocked call on an instance that has counted, rejected and quarantined
C11_Witness ==
    /\ pre.safe
    /\ last_op = "monitor_ai_decision"
    /\ report.triggered_rules = <<BreakerRule>>
    /\ rejected_count > 0
    /\ consecutive_failures > 0
    /\ quarantined_reports # <<>>
    /\ Core = pre

\* C12: in a call where the scanner or the filter signals stop, the sanitizer
\* is not invoked, and the report has sanitized_decision equal to the original
\* text and no 'PII sanitized' rule.
C12_NoSanitizeAfterStop ==
    (~pre.safe /\ Reported /\ ~Passes(report.original_decision)) =>
        /\ "sanitize" \notin Range(stages)
        /\ report.sanitized_decision = report.original_decision
        /\ SanitizedRule \notin Range(report.triggered_rules)

\* an injection phrase next to an e-mail address the sanitizer would rewrite
C12_Witness ==
    /\ Reported
    /\ config.charles.enabled
    /\ report.original_decision = <<"ignore", Email>>
    /\ report.result = REJECTED
    /\ stages = <<"scan", "hallucination", "bias", "toxicity", "pii", "filter">>
    /\ report.sanitized_decision = <<"ignore", Email>>

\* C13 (as claimed): in every breaker state, a returned report has
\* sanitized_decision = original_decision unless the sanitizer's rule fired.
C13_SameUnlessRuleFired ==
    Reported =>
        (SanitizedRule \notin Range(report.triggered_rules)
            => report.sanitized_decision = report.original_decision)

\* C13 (amended): that holds for a call made with the breaker closed; a call
\* made while it is open returns an empty sanitized_decision.
C13_SameUnlessRuleFiredWhenClosed ==
    Reported =>
        IF pre.safe
        THEN report.sanitized_decision = <<>>
        ELSE (SanitizedRule \notin Range(report.triggered_rules)
                 => report.sanitized_decision = report.original_decision)

\* an address goes through untouched when the sanitizer is disabled
C13_Witness ==
    /\ ~pre.safe
    /\ Reported
    /\ ~config.charles.enabled
    /\ report.original_decision = <<Email, "you">>
    /\ report.sanitized_decision = <<Email, "you">>
    /\ SanitizedRule \notin Range(report.triggered_rules)

\* some configured PII regex finds something in the text
HasPii(decision) ==
    \E i \in DOMAIN config.intersect.piiPatterns :
        Search(config.intersect.piiPatterns[i], decision)

\* C14: with the breaker closed and the scanner enabled, a text that matches a
\* bias phrase and a PII pattern is Rejected, the PII patterns are not
\* evaluated, and the report has no PII rule and no PII score: the score is
\* that of the one phrase that matched (the bias phrase, or a hallucination
\* pattern when the text has one too).
C14_BiasBeforePii ==
    (~pre.safe /\ Reported /\ config.intersect.enabled
        /\ HasPhrase(config.intersect.biasKeywords, report.original_decision)
        /\ HasPii(report.original_decision)) =>
        /\ report.result = REJECTED
        /\ "pii" \notin Range(stages)
        /\ PiiRule \notin Range(report.triggered_rules)
        /\ Len(report.triggered_rules) = 1
        /\ IF HasPhrase(config.intersect.hallucinationPatterns,
                        report.original_decision)
           THEN report.suspicion_score = HallucinationScore
           ELSE BiasRuleOf(report) /\ report.suspicion_score = BiasScore

C14_Witness ==
    /\ Reported
    /\ report.original_decision = <<"MEN", Email>>
    /\ report.result = REJECTED
    /\ report.triggered_rules = <<Rule("Intersect: Bias detected", <<"Men">>)>>
    /\ report.suspicion_score = BiasScore
    /\ stages = <<"scan", "hallucination", "bias">>

\* the scanner lets the text through
ScanPasses(decision) ==
    config.intersect.enabled =>
        /\ ~HasPhrase(config.intersect.hallucinationPatterns, decision)
        /\ ~HasPhrase(config.intersect.biasKeywords, decision)
        /\ ~HasPhrase(config.intersect.toxicityPatterns, decision)

\* what the scanner leaves in the report of a text it lets through
ScanFound(decision) == config.intersect.enabled /\ HasPii(decision)

InjectionRule(i) ==
    Rule("Fulcrum: Prompt injection attempt", config.fulcrum.promptInjectionPatterns[i])

ExfiltrationRule(i) ==
    Rule("Fulcrum: Data exfiltration attempt", config.fulcrum.dataExfiltrationPatterns[i])

FulcrumRules ==
    {InjectionRule(i) : i \in DOMAIN config.fulcrum.promptInjectionPatterns}
    \cup {ExfiltrationRule(i) : i \in DOMAIN config.fulcrum.dataExfiltrationPatterns}

\* the rule the filter is to append for this text
ExpectedFulcrumRule(rule, decision) ==
    LET inj == config.fulcrum.promptInjectionPatterns
        exf == config.fulcrum.dataExfiltrationPatterns
    IN  IF HasPhrase(inj, decision)
        THEN \E i \in DOMAIN inj : IsFirstHit(inj, i, decision) /\ rule = InjectionRule(i)
        ELSE \E i \in DOMAIN exf : IsFirstHit(exf, i, decision) /\ rule = ExfiltrationRule(i)

FilterMatches(decision) ==
    \/ HasPhrase(config.fulcrum.promptInjectionPatterns, decision)
    \/ HasPhrase(config.fulcrum.dataExfiltrationPatterns, decision)

\* what the filter is to do to the report of a text the scanner let through
FilterContract ==
        LET d == report.original_decision
            rules == report.triggered_rules
            n == IF ScanFound(d) THEN 1 ELSE 0
        IN  IF FilterMatches(d)
            THEN /\ report.result = REJECTED
                 /\ Len(rules) = n + 1
                 /\ n = 1 => rules[1] = PiiRule
                 /\ ExpectedFulcrumRule(rules[n + 1], d)
                 /\ report.suspicion_score = n * PiiScore + FulcrumScore
                 /\ stages # <<>> /\ stages[Len(stages)] = "filter"
                 /\ report.sanitized_decision = d
            ELSE /\ Range(rules) \cap FulcrumRules = {}
                 /\ report.suspicion_score = n * PiiScore
                 /\ config.charles.enabled => "sanitize" \in Range(stages)
                 /\ report.result # REJECTED

\* C15 (as claimed): for a text the scanner lets through: if the text holds a
\* configured injection or exfiltration phrase the result is Rejected, exactly
\* one rule is appended to what the scanner left, naming the first matching
\* phrase (injection list first), the score rises by exactly 1.0 and no later
\* stage runs; if it holds none, the filter adds no rule and no score and the
\* pipeline goes on.
C15_FilterAlwaysRejects ==
    (~pre.safe /\ Reported /\ ScanPasses(report.original_decision))
        => FilterContract

\* C15 (amended): the same under a rule set that enables the filter.
C15_EnabledFilterRejects ==
    (~pre.safe /\ Reported /\ config.fulcrum.enabled
        /\ ScanPasses(report.original_decision))
        => FilterContract

\* both lists match; the injection phrase comes second in the text
C15_Witness ==
    /\ Reported
    /\ report.original_decision = <<"dump", "ignore">>
    /\ report.result = REJECTED
    /\ report.triggered_rules = <<Rule("Fulcrum: Prompt injection attempt", <<"ignore">>)>>
    /\ report.suspicion_score = FulcrumScore

ToxicityRuleOf(rep) ==
    \E r \in Range(rep.triggered_rules) : r.kind = "Intersect: Toxicity detected"

\* the text holds a toxicity phrase and no hallucination or bias phrase
OnlyToxic(decision) ==
    /\ HasPhrase(config.intersect.toxicityPatterns, decision)
    /\ ~HasPhrase(config.intersect.hallucinationPatterns, decision)
    /\ ~HasPhrase(config.intersect.biasKeywords, decision)

\* C16 (as claimed): with the breaker closed and the scanner enabled, a text
\* holding a toxicity phrase and no hallucination or bias phrase is returned
\* Rejected with a 'Toxicity detected' rule.
C16_ToxicAlwaysRejected ==
    (~pre.safe /\ Reported /\ config.intersect.enabled
        /\ OnlyToxic(report.original_decision)) =>
        /\ report.result = REJECTED
        /\ ToxicityRuleOf(report)

\* C16 (amended): the result is Quarantined when autoQuarantineOnToxicity is
\* set and Rejected otherwise; the rule is there in both cases.
C16_ToxicRejectedOrQuarantined ==
    (~pre.safe /\ Reported /\ config.intersect.enabled
        /\ OnlyToxic(report.original_decision)) =>
        /\ report.result =
              IF Flag("autoQuarantineOnToxicity") THEN QUARANTINED ELSE REJECTED
        /\ ToxicityRuleOf(report)
        /\ report.suspicion_score = ToxicityScore

C16_Witness ==
    /\ Reported
    /\ report.original_decision = <<"you", "idiot">>
    /\ report.result = QUARANTINED
    /\ report.triggered_rules = <<Rule("Intersect: Toxicity detected", <<"you", "idiot">>)>>
    /\ rejected_count = pre.rejected + 1

Count(rule, rules) == Cardinality({i \in DOMAIN rules : rules[i] = rule})

\* C17: when the scanner reaches the PII patterns and one matches, the report
\* holds exactly one PII rule and the score 0.5 once, however many patterns
\* match, and the pipeline goes on to the filter; if nothing else matches, the
\* result is not Rejected.
C17_PiiNeverStops ==
    (~pre.safe /\ Reported /\ config.intersect.enabled
        /\ ScanPasses(report.original_decision)
        /\ HasPii(report.original_decision)) =>
        LET d == report.original_decision
            stopped == config.fulcrum.enabled /\ FilterMatches(d)
        IN  /\ Count(PiiRule, report.triggered_rules) = 1
            /\ "filter" \in Range(stages)
            /\ report.suspicion_score =
                   PiiScore + (IF stopped THEN FulcrumScore ELSE 0)
            /\ ~stopped => report.result # REJECTED

\* two configured patterns find the same address
C17_Witness ==
    /\ Reported
    /\ report.original_decision = <<Email>>
    /\ Cardinality({i \in DOMAIN config.intersect.piiPatterns :
                       Search(config.intersect.piiPatterns[i], <<Email>>)}) = 2
    /\ report.triggered_rules = <<PiiRule, SanitizedRule>>
    /\ report.suspicion_score = PiiScore
    /\ report.result = SANITIZED

\* C18: quick_validate and validate_ai_output return True exactly when the
\* report of the underlying call is Approved or Sanitized; Quarantined and
\* Rejected, a rejection by the open breaker included, give False.
C18_SafeIffApprovedOrSanitized ==
    last_op \in {"quick_validate", "validate_ai_output"} =>
        /\ quick_ret = "True" <=> report.result \in {APPROVED, SANITIZED}
        /\ quick_ret = "False" <=> report.result \in {QUARANTINED, REJECTED}
        /\ pre.safe => quick_ret = "False"

C18_Witness ==
    /\ last_op = "validate_ai_output"
    /\ report.result = QUARANTINED
    /\ quick_ret = "False"

\* C19: no operation lowers the total, approved, rejected or quarantined
\* counter, and one operation raises each of them by at most one.
C19_CountersMonotonic ==
    /\ pre.total <= total_validations /\ total_validations <= pre.total + 1
    /\ pre.approved <= approved_count /\ approved_count <= pre.approved + 1
    /\ pre.rejected <= rejected_count /\ rejected_count <= pre.rejected + 1
    /\ pre.quarantined <= quarantined_count
    /\ quarantined_count <= pre.quarantined + 1

\* the call that trips the breaker
C19_Witness ==
    /\ last_op \in Calls
    /\ ~pre.safe /\ safe_mode_active
    /\ pre.rejected > 0
    /\ rejected_count = pre.rejected + 1
    /\ total_validations = pre.total + 1
    /\ approved_count = pre.approved

\* C20: when every thread of the load test has returned, total_validations is
\* the number of calls that passed the breaker check.
C20_NoLostIncrement ==
    (\A t \in Threads : threads[t].pc = "done") =>
        total_validations = Cardinality({t \in Threads : threads[t].passed})

\* the fields of the instance in an outcome of monitor_ai_decision
CoreOf(o) ==
    [safe |-> o.safe, failures |-> o.failures, total |-> o.total,
     approved |-> o.approved, rejected |-> o.rejected,
     quarantined |-> o.quarantined, history |-> o.history]

C22_CallAlwaysReturnsReport ==
    last_op \in Calls =>
        report.result \in {APPROVED, SANITIZED, QUARANTINED, REJECTED}

\* the filter stopped this call
FilterStopped ==
    /\ ~pre.safe /\ last_op \in Calls
    /\ config.fulcrum.enabled
    /\ ScanPasses(report.original_decision)
    /\ FilterMatches(report.original_decision)

\* C23: when the filter signals stop, the consecutive-failure and rejected
\* counters rise by exactly one each, and if the consecutive-failure counter
\* has reached the threshold the breaker is open when the call returns.
C23_FilterStopTrips ==
    FilterStopped =>
        /\ consecutive_failures = pre.failures + 1
        /\ rejected_count = pre.rejected + 1
        /\ consecutive_failures >= TripThreshold => safe_mode_active

\* the scanner stopped this call
ScanStopped ==
    /\ ~pre.safe /\ last_op \in Calls
    /\ ~ScanPasses(report.original_decision)

\* C24: when the scanner signals stop, the consecutive-failure and rejected
\* counters rise by exactly one each, the breaker is open if the counter is now
\* at or above the threshold, and neither the filter nor the sanitizer nor the
\* quarantine policy runs: the approved and quarantined counters and the
\* history are as before.
C24_ScanStopCountsAndTrips ==
    ScanStopped =>
        /\ consecutive_failures = pre.failures + 1
        /\ rejected_count = pre.rejected + 1
        /\ consecutive_failures >= TripThreshold => safe_mode_active
        /\ Range(stages) \cap {"filter", "sanitize", "quarantine"} = {}
        /\ approved_count = pre.approved
        /\ quarantined_count = pre.quarantined
        /\ quarantined_reports = pre.history
        /\ report.sanitized_decision = report.original_decision

\* the second hallucination in a row, with the threshold at 2, opens the breaker
C24_Witness ==
    /\ last_op = "monitor_ai_decision"
    /\ TripThreshold = 2
    /\ ~Flag("autoQuarantineOnBias")
    /\ pre.failures = 1 /\ ~pre.safe
    /\ report.original_decision = <<"fake">>
    /\ stages = <<"scan", "hallucination">>
    /\ consecutive_failures = 2
    /\ safe_mode_active

\* C25: with autoQuarantineOnBias set, a call in which the bias check matches
\* leaves the breaker open, whatever the consecutive-failure counter; it
\* returns the bias report, not the breaker's, and raises the rejected and
\* consecutive-failure counters by one.
C25_BiasAutoTrip ==
    (~pre.safe /\ last_op \in Calls /\ config.intersect.enabled
        /\ Flag("autoQuarantineOnBias")
        /\ HasPhrase(config.intersect.biasKeywords, report.original_decision)
        /\ ~HasPhrase(config.intersect.hallucinationPatterns,
                      report.original_decision)) =>
        /\ safe_mode_active
        /\ report.result = REJECTED
        /\ BiasRuleOf(report)
        /\ BreakerRule \notin Range(report.triggered_rules)
        /\ report.sanitized_decision = report.original_decision
        /\ rejected_count = pre.rejected + 1
        /\ consecutive_failures = pre.failures + 1

\* the first rejection of an instance, with the threshold at 2
C25_Witness ==
    /\ last_op \in Calls
    /\ Flag("autoQuarantineOnBias")
    /\ TripThreshold = 2
    /\ pre.failures = 0 /\ ~pre.safe
    /\ consecutive_failures = 1
    /\ BiasRuleOf(report)
    /\ safe_mode_active

\* C26: with autoQuarantineOnToxicity set, a toxicity match gives result
\* Quarantined with the toxicity rule and 0.8 on the score, and the scanner
\* still stops the call there: no PII check, filter, sanitizer or quarantine
\* policy runs, so nothing is appended to the history.
C26_ToxicityAutoQuarantine ==
    (~pre.safe /\ Reported /\ config.intersect.enabled
        /\ Flag("autoQuarantineOnToxicity")
        /\ OnlyToxic(report.original_decision)) =>
        /\ report.result = QUARANTINED
        /\ \E i \in DOMAIN config.intersect.toxicityPatterns :
              /\ IsFirstHit(config.intersect.toxicityPatterns, i,
                            report.original_decision)
              /\ report.triggered_rules =
                    <<Rule("Intersect: Toxicity detected",
                           config.intersect.toxicityPatterns[i])>>
        /\ report.suspicion_score = ToxicityScore
        /\ stages = <<"scan", "hallucination", "bias", "toxicity">>
        /\ quarantined_reports = pre.history
        /\ quarantined_count = pre.quarantined

\* the toxic phrase in upper and lower case next to nothing else
C26_Witness ==
    /\ last_op = "monitor_ai_decision"
    /\ Flag("autoQuarantineOnToxicity")
    /\ report.original_decision = <<"you", "idiot">>
    /\ report.result = QUARANTINED
    /\ report.suspicion_score = ToxicityScore
    /\ quarantined_reports = <<>>
    /\ stages = <<"scan", "hallucination", "bias", "toxicity">>

\* the report of a call that the scanner stopped at the first phrase of `list`
\* found in the text: that one rule, that category's increment, those checks
StoppedAt(list, kind, score, checks) ==
    \E i \in DOMAIN list :
        /\ IsFirstHit(list, i, report.original_decision)
        /\ report.triggered_rules = <<Rule(kind, list[i])>>
        /\ report.suspicion_score = score
        /\ stages = checks
        /\ report.result \in {REJECTED, QUARANTINED}

\* C27: the scanner checks hallucination, bias, toxicity in that order and the
\* phrases of each in list order, and stops at the first match: the report has
\* exactly one rule, naming the category and the phrase of that first match,
\* the score is that category's increment, and no later check is made.
C27_FirstMatchOnly ==
    (~pre.safe /\ Reported /\ config.intersect.enabled) =>
        LET d == report.original_decision
        IN  IF HasPhrase(config.intersect.hallucinationPatterns, d)
            THEN StoppedAt(config.intersect.hallucinationPatterns,
                           "Intersect: Hallucination detected", HallucinationScore,
                           <<"scan", "hallucination">>)
            ELSE IF HasPhrase(config.intersect.biasKeywords, d)
            THEN StoppedAt(config.intersect.biasKeywords,
                           "Intersect: Bias detected", BiasScore,
                           <<"scan", "hallucination", "bias">>)
            ELSE HasPhrase(config.intersect.toxicityPatterns, d) =>
                 StoppedAt(config.intersect.toxicityPatterns,
                           "Intersect: Toxicity detected", ToxicityScore,
                           <<"scan", "hallucination", "bias", "toxicity">>)

\* a text that holds both bias phrases and the toxicity phrase's first word
C27_Witness ==
    /\ last_op \in Calls /\ ~pre.safe
    /\ config.intersect.biasKeywords = << <<"Men">>, <<"you", "Men">> >>
    /\ report.original_decision = <<"you", "MEN">>
    /\ ~HasPhrase(config.intersect.hallucinationPatterns, report.original_decision)
    /\ IsFirstHit(config.intersect.biasKeywords, 1, report.original_decision)
    /\ Contains(LowerText(config.intersect.biasKeywords[2]),
                LowerText(report.original_decision))
    /\ report.triggered_rules = <<Rule("Intersect: Bias detected", <<"Men">>)>>
    /\ stages = <<"scan", "hallucination", "bias">>

\* the score of a report that reaches the quarantine stage
ScoreAtPolicy(decision) == IF ScanFound(decision) THEN PiiScore ELSE 0

\* the result of a report as it reaches the quarantine stage
ResultAtPolicy(decision) ==
    IF config.charles.enabled /\ sanitize_with_charles_carmichael(decision) # decision
    THEN SANITIZED
    ELSE IF ScanFound(decision) /\ Flag("autoQuarantineOnPII")
    THEN QUARANTINED ELSE APPROVED

\* the stage is enabled and the score is at or above the threshold
PolicyQuarantines(decision) ==
    config.stay_in_car.enabled /\ ScoreAtPolicy(decision) >= QuarantineThreshold

\* C28: in a call that neither reject stage stopped, the quarantine stage sets
\* the result to Quarantined, over Approved or Sanitized, and appends the
\* report to the history exactly when the stage is enabled and the score is at
\* or above the threshold (equal included); otherwise the result and the
\* history are as they reached the stage.
C28_QuarantineIffAtThreshold ==
    (~pre.safe /\ last_op \in Calls /\ Passes(report.original_decision)) =>
        LET d == report.original_decision
        IN  /\ report.suspicion_score = ScoreAtPolicy(d)
            /\ IF PolicyQuarantines(d)
               THEN /\ report.result = QUARANTINED
                    /\ "quarantine" \in Range(stages)
                    /\ quarantined_reports =
                          Append(pre.history,
                                 [call |-> total_validations, result |-> QUARANTINED,
                                  suspicion_score |-> ScoreAtPolicy(d)])
               ELSE /\ report.result = ResultAtPolicy(d)
                    /\ "quarantine" \notin Range(stages)
                    /\ quarantined_reports = pre.history

\* a sanitized report whose score is exactly the configured threshold
C28_Witness ==
    /\ last_op \in Calls /\ ~pre.safe
    /\ Passes(report.original_decision)
    /\ QuarantineThreshold = PiiScore
    /\ report.suspicion_score = QuarantineThreshold
    /\ SanitizedRule \in Range(report.triggered_rules)
    /\ ResultAtPolicy(report.original_decision) = SANITIZED
    /\ report.result = QUARANTINED
    /\ Len(quarantined_reports) = Len(pre.history) + 1

\* C29: a monitor_ai_decision call that returns Quarantined raises the
\* quarantined counter by exactly one, and a call that returns Approved or
\* Sanitized raises the approved counter by exactly one.
C29_ResultIsCounted ==
    last_op = "monitor_ai_decision" =>
        /\ report.result = QUARANTINED =>
              quarantined_count = pre.quarantined + 1
        /\ report.result \in {APPROVED, SANITIZED} =>
              approved_count = pre.approved + 1

\* C30: a call that the quarantine policy quarantines appends one entry, its
\* own report, to the end of the history, and no other call changes the
\* history; in every state the history is as long as the quarantined counter.
C30_HistoryAppendOnly ==
    /\ Len(quarantined_reports) = quarantined_count
    /\ last_op \in Calls =>
          IF ~pre.safe /\ Passes(report.original_decision)
                /\ PolicyQuarantines(report.original_decision)
          THEN quarantined_reports =
                  Append(pre.history,
                         [call |-> total_validations, result |-> report.result,
                          suspicion_score |-> report.suspicion_score])
          ELSE quarantined_reports = pre.history
    /\ last_op \notin Calls => quarantined_reports = pre.history

\* a second quarantine after a first, with a rejected call somewhere
C30_Witness ==
    /\ last_op \in Calls
    /\ Len(pre.history) = 1
    /\ Len(quarantined_reports) = 2
    /\ quarantined_reports[1] = pre.history[1]
    /\ quarantined_reports[2].call = total_validations
    /\ quarantined_reports[1].call < quarantined_reports[2].call
    /\ quarantined_count = 2
    /\ rejected_count = 1

\* the activation records that the calls of threads 1..n wrote
RECURSIVE RecordsUpTo(_)
RecordsUpTo(n) == IF n = 0 THEN 0 ELSE threads[n].records + RecordsUpTo(n - 1)

ActivationRecords == RecordsUpTo(NumThreads)

\* C33: _enter_buy_more_mode on an open breaker changes nothing and writes no
\* second activation record, and when concurrent calls both reach a trip
\* condition the breaker is activated at most once: the load test, which never
\* resets the breaker, leaves at most one activation record.
C33_OneActivationPerTrip ==
    /\ ActivationRecords <= 1
    /\ ActivationRecords = 1 => safe_mode_active

\* C36: in the load test, once the breaker is open no call returns an
\* Approved, Sanitized or Quarantined report, calls that had passed the breaker
\* check before the trip included.
C36_NoPassAfterTrip ==
    [][\A t \in Threads :
          (safe_mode_active /\ threads[t].pc = "run" /\ threads'[t].pc = "done")
              => threads[t].result \notin {APPROVED, SANITIZED, QUARANTINED}]_vars

\* Approved < Sanitized < Quarantined
Rank(result) ==
    CASE result = APPROVED -> 0
      [] result = SANITIZED -> 1
      [] result = QUARANTINED -> 2

\* C31: in a call that no stage rejects, the result only moves upward in the
\* order Approved < Sanitized < Quarantined: from the scanner to the
\* sanitizer, and from the sanitizer to the report returned.
C31_ResultOnlyUpgrades ==
    (~pre.safe /\ Reported /\ Passes(report.original_decision)) =>
        LET d == report.original_decision
            scanned == run_intersect_scan(d, FreshReport(d), FALSE).report
            cleaned == ApplySanitizer(d, run_fulcrum_filter(d, scanned).report)
        IN  /\ Rank(FreshReport(d).result) <= Rank(scanned.result)
            /\ Rank(scanned.result) <= Rank(cleaned.result)
            /\ Rank(cleaned.result) <= Rank(report.result)

ScannerRejectKinds ==
    {"Intersect: Hallucination detected", "Intersect: Bias detected",
     "Intersect: Toxicity detected"}

FilterRejectKinds ==
    {"Fulcrum: Prompt injection attempt", "Fulcrum: Data exfiltration attempt"}

\* a stage of this call set the result to Rejected: it appended its rule
SetRejected ==
    /\ ~pre.safe /\ Reported
    /\ \E r \in Range(report.triggered_rules) :
           r.kind \in ScannerRejectKinds \cup FilterRejectKinds

\* the stage that rejected was the last to run
NothingAfterReject ==
    LET rules == report.triggered_rules
        last == rules[Len(rules)].kind
    IN  /\ last \in ScannerRejectKinds \cup FilterRejectKinds
        /\ last \in ScannerRejectKinds => "filter" \notin Range(stages)
        /\ Range(stages) \cap {"sanitize", "quarantine"} = {}
        /\ report.sanitized_decision = report.original_decision
        /\ last_op \in Calls =>
              /\ quarantined_reports = pre.history
              /\ approved_count = pre.approved
              /\ quarantined_count = pre.quarantined

\* C32 (as claimed): once a stage has set the result to Rejected, no later
\* assignment changes it and no later stage runs: the report is returned
\* Rejected.
C32_RejectedIsTerminal ==
    SetRejected => report.result = REJECTED /\ NothingAfterReject

\* C32 (amended): once a stage has set the result to Rejected no later stage
\* runs, and the report is returned Rejected, except that on a toxicity match
\* with autoQuarantineOnToxicity set the scanner itself replaces Rejected by
\* Quarantined before it returns.
C32_RejectedIsTerminalButToxicity ==
    SetRejected =>
        /\ report.result =
              IF ToxicityRuleOf(report) /\ Flag("autoQuarantineOnToxicity")
              THEN QUARANTINED ELSE REJECTED
        /\ NothingAfterReject

\* the filter rejects a text that holds an e-mail address, which the
\* sanitizer would have rewritten and the quarantine policy held
C32_Witness ==
    /\ last_op \in Calls /\ ~pre.safe
    /\ report.original_decision = <<Email, "ignore">>
    /\ report.triggered_rules =
          <<PiiRule, Rule("Fulcrum: Prompt injection attempt", <<"ignore">>)>>
    /\ report.result = REJECTED
    /\ report.suspicion_score >= QuarantineThreshold
    /\ report.sanitized_decision = report.original_decision
    /\ stages[Len(stages)] = "filter"

\* one substitution of the sanitizer on one word: the replacement when the
\* kind is configured and its pattern finds the word
Substituted(kind, w) ==
    IF kind \in DOMAIN config.charles.sanitizationRules /\ Matches(kind, w)
    THEN config.charles.sanitizationRules[kind] ELSE w

\* email, SSN, credit card, phone, IPv4, each on the output of the one before
Composed(w) ==
    Substituted("ipAddresses",
        Substituted("phoneNumbers",
            Substituted("creditCards",
                Substituted("ssn",
                    Substituted("emails", w)))))

NoScannerRules ==
    /\ config.intersect.hallucinationPatterns = <<>>
    /\ config.intersect.biasKeywords = <<>>
    /\ config.intersect.toxicityPatterns = <<>>
    /\ config.intersect.piiPatterns = <<>>

\* C35: with the scanner enabled and every one of its rule lists empty, the
\* scan lets every text through and leaves result, rules and score of the
\* report as they were.
C35_EmptyListsPassThrough ==
    (config.intersect.enabled /\ NoScannerRules /\ ~pre.safe /\ Reported) =>
        LET d == report.original_decision
            scan == run_intersect_scan(d, FreshReport(d), FALSE)
        IN  /\ scan.cont
            /\ scan.report = FreshReport(d)
            /\ "filter" \in Range(stages)
            /\ \A r \in Range(report.triggered_rules) :
                   r.kind \notin ScannerRejectKinds /\ r # PiiRule
            /\ report.suspicion_score \in {0, FulcrumScore}

\* a text full of what the other rule sets find goes through to approval
C35_Witness ==
    /\ config.intersect.enabled /\ NoScannerRules
    /\ last_op \in Calls /\ ~pre.safe
    /\ report.original_decision = <<"fake", "MEN">>
    /\ report.result = APPROVED
    /\ report.triggered_rules = <<>>
    /\ approved_count = pre.approved + 1

\* C37: a toxicity match under autoQuarantineOnToxicity returns Quarantined
\* and is accounted as a failure: the rejected and consecutive-failure counters
\* rise by one, the quarantined counter and the history stay, and the breaker
\* opens when the consecutive-failure counter reaches the threshold.
C37_ToxicQuarantineIsFailure ==
    (Flag("autoQuarantineOnToxicity") /\ ~pre.safe /\ last_op \in Calls
        /\ config.intersect.enabled /\ OnlyToxic(report.original_decision)) =>
        /\ report.result = QUARANTINED
        /\ rejected_count = pre.rejected + 1
        /\ consecutive_failures = pre.failures + 1
        /\ quarantined_count = pre.quarantined
        /\ quarantined_reports = pre.history
        /\ approved_count = pre.approved
        /\ safe_mode_active = (consecutive_failures >= TripThreshold)

\* the second such outcome in a row, with the threshold at 2
C37_Witness ==
    /\ Flag("autoQuarantineOnToxicity") /\ last_op \in Calls
    /\ TripThreshold = 2
    /\ pre.failures = 1 /\ pre.rejected = 1 /\ pre.total = 1 /\ ~pre.safe
    /\ report.original_decision = <<"you", "idiot">>
    /\ report.result = QUARANTINED
    /\ consecutive_failures = 2
    /\ safe_mode_active

\* C38: a call that the quarantine policy quarantines leaves the
\* consecutive-failure counter as it was, neither incremented nor reset, and
\* leaves the approved and rejected counters unchanged.
C38_PolicyQuarantineKeepsFailures ==
    (config.stay_in_car.enabled /\ QuarantineThreshold <= PiiScore
        /\ ~pre.safe /\ last_op \in Calls
        /\ PolicyQuarantines(report.original_decision)
        /\ Passes(report.original_decision)) =>
        /\ report.result = QUARANTINED
        /\ consecutive_failures = pre.failures
        /\ approved_count = pre.approved
        /\ rejected_count = pre.rejected
        /\ ~safe_mode_active

\* a policy quarantine after a rejection: the counter stays at 1
C38_Witness ==
    /\ last_op \in Calls /\ ~pre.safe
    /\ PolicyQuarantines(report.original_decision)
    /\ Passes(report.original_decision)
    /\ Len(quarantined_reports) = Len(pre.history) + 1
    /\ pre.failures = 1 /\ pre.rejected = 1
    /\ consecutive_failures = 1
    /\ TripThreshold = 2

\* C39: with autoQuarantineOnBias set, a text that holds a hallucination
\* phrase and a bias phrase gets the hallucination rule only, with 1.0, and the
\* call opens the breaker only if the consecutive-failure counter reaches the
\* threshold.
C39_HallucinationHidesBiasTrip ==
    (Flag("autoQuarantineOnBias") /\ ~pre.safe /\ last_op \in Calls
        /\ config.intersect.enabled
        /\ HasPhrase(config.intersect.hallucinationPatterns, report.original_decision)
        /\ HasPhrase(config.intersect.biasKeywords, report.original_decision)) =>
        /\ report.result = REJECTED
        /\ Len(report.triggered_rules) = 1
        /\ report.triggered_rules[1].kind = "Intersect: Hallucination detected"
        /\ report.suspicion_score = HallucinationScore
        /\ stages = <<"scan", "hallucination">>
        /\ safe_mode_active = (pre.failures + 1 >= TripThreshold)

\* the first rejection, below the threshold of 2: the breaker stays closed
C39_Witness ==
    /\ Flag("autoQuarantineOnBias") /\ last_op \in Calls
    /\ TripThreshold = 2 /\ pre.failures = 0 /\ ~pre.safe
    /\ report.original_decision = <<"fake", "MEN">>
    /\ HasPhrase(config.intersect.biasKeywords, report.original_decision)
    /\ ~BiasRuleOf(report)
    /\ consecutive_failures = 1
    /\ ~safe_mode_active

\* C40: exit_buy_more_mode changes nothing but the breaker flag and the
\* consecutive-failure counter: the four counters and the history are after
\* the call what they were before it, with the breaker open or closed.
C40_ExitKeepsCounters ==
    last_op = "exit_buy_more_mode" =>
        /\ total_validations = pre.total
        /\ approved_count = pre.approved
        /\ rejected_count = pre.rejected
        /\ quarantined_count = pre.quarantined
        /\ quarantined_reports = pre.history

\* an exit from an open breaker on an instance that has counted calls
C40_Witness ==
    /\ last_op = "exit_buy_more_mode"
    /\ pre.safe /\ ~safe_mode_active
    /\ consecutive_failures = 0 /\ pre.failures > 0
    /\ total_validations = 2 /\ rejected_count = 2

====
